---- MODULE Spec2Model ----
(***************************************************************************)
(* The R-tree of src/app/main.ts as a state machine.                       *)
(*                                                                         *)
(* The heap is explicit: every RTreeNode and every TreeElement is an       *)
(* object with an identity (its index in `nodes` / `elems`), so sharing of *)
(* one TreeElement between two element lists, stale parent references and  *)
(* in-place mutation of a cached MBR behave as in the program.  After each *)
(* public operation the objects that can no longer be reached are dropped  *)
(* and the others renumbered in traversal order (what a garbage collector  *)
(* does; object identity has no other meaning).                            *)
(***************************************************************************)
EXTENDS Integers, Sequences, FiniteSets, TLC

VARIABLES
    nodes,        \* heap of RTreeNode: [elements, isLeaf, parent]
    elems,        \* heap of TreeElement: [shape, child, data]
    root,         \* RTree.root (a node reference)
    maxEntries,   \* RTree.maxEntries
    minEntries,   \* RTree.minEntries
    objectArray,  \* the driver's objectArray: id -> shape pushed with it, or NoShape
    assigned,     \* history of the calls: id -> shape of the last insert or updateById
                  \* of a payload that is stored, NoShape once it is deleted
    nextId,       \* next identifier the driver assigns on insert
    budget,       \* number of calls other than insert the driver may still make
    lastOp,       \* the last public call, what it returned, the number of
                  \* reinsertions its _condenseTree made and the splits it made
    call          \* the deleteById call that is inside the reinsertion loop of
                  \* _condenseTree (NoCall when no call is): its tree and loop position

vars == <<nodes, elems, root, maxEntries, minEntries, objectArray, assigned, nextId, budget,
         lastOp, call>>

\* ---------------------------------------------------------------- bounds
MaxId == 5          \* identifiers 1..MaxId are assigned by insert
MaxMutations == 1   \* deleteById/updateById calls in one run of Spec
DeepMutations == 2  \* deleteById/updateById calls in one run of SpecDeep
MaxReinsertions == 8 \* reinsertions one deleteById may make in SpecSteps

Null == 0           \* the null reference (nodes, elements) and the null payload

Ids == 1..MaxId

\* ---------------------------------------------------------------- geometry
BoundingBox(minX, minY, maxX, maxY) ==
    [kind |-> "BoundingBox", minX |-> minX, minY |-> minY, maxX |-> maxX, maxY |-> maxY]

Circle(centerX, centerY, radius) ==
    [kind |-> "Circle", centerX |-> centerX, centerY |-> centerY, radius |-> radius]

Polygon(points) == [kind |-> "Polygon", points |-> points]

Min(a, b) == IF a < b THEN a ELSE b
Max(a, b) == IF a > b THEN a ELSE b

RECURSIVE MinOf(_)
MinOf(s) == IF Len(s) = 1 THEN s[1] ELSE Min(s[1], MinOf(Tail(s)))
RECURSIVE MaxOf(_)
MaxOf(s) == IF Len(s) = 1 THEN s[1] ELSE Max(s[1], MaxOf(Tail(s)))

\* Shape.getBoundingBox, by kind of shape
getBoundingBox(s) ==
    CASE s.kind = "BoundingBox" -> s
      [] s.kind = "Circle" ->
            BoundingBox(s.centerX - s.radius, s.centerY - s.radius,
                        s.centerX + s.radius, s.centerY + s.radius)
      [] s.kind = "Polygon" ->
            BoundingBox(MinOf([i \in 1..Len(s.points) |-> s.points[i].x]),
                        MinOf([i \in 1..Len(s.points) |-> s.points[i].y]),
                        MaxOf([i \in 1..Len(s.points) |-> s.points[i].x]),
                        MaxOf([i \in 1..Len(s.points) |-> s.points[i].y]))

\* BoundingBox.intersects on two boxes
boxIntersects(b, otherBox) ==
    ~(b.maxX < otherBox.minX \/ b.minX > otherBox.maxX \/
      b.maxY < otherBox.minY \/ b.minY > otherBox.maxY)

\* Shape.intersects: all three kinds test their bounding box against the other's
intersects(s, other) == boxIntersects(getBoundingBox(s), getBoundingBox(other))

\* BoundingBox.contains
boxContains(b, otherBox) ==
    b.minX <= otherBox.minX /\ b.maxX >= otherBox.maxX /\
    b.minY <= otherBox.minY /\ b.maxY >= otherBox.maxY

\* expandToInclude as it would be without the two Math.min assignments
expandToIncludeMaxOnly(b, other) ==
    LET o == getBoundingBox(other) IN
    BoundingBox(b.minX, b.minY, Max(b.maxX, o.maxX), Max(b.maxY, o.maxY))

\* BoundingBox.expandToInclude: the box after the call
expandToInclude(b, other) ==
    LET o == getBoundingBox(other) IN
    BoundingBox(Min(b.minX, o.minX), Min(b.minY, o.minY),
                Max(b.maxX, o.maxX), Max(b.maxY, o.maxY))

\* BoundingBox.area
area(b) == (b.maxX - b.minX) * (b.maxY - b.minY)

\* ---------------------------------------------------------------- inputs
Shapes ==
    << BoundingBox(0, 0, 1, 1),
       Circle(4, 4, 1),
       Polygon(<< [x |-> 2, y |-> 0], [x |-> 3, y |-> 0], [x |-> 3, y |-> 2] >>) >>

\* the shapes insert and updateById are called with
InputShapes == {Shapes[1], Shapes[2]}

Queries ==
    { BoundingBox(0, 0, 1, 1), BoundingBox(3, 3, 5, 5), Shapes[3],
      BoundingBox(0, 0, 5, 5), BoundingBox(6, 6, 7, 7), BoundingBox(1, 1, 3, 3) }

NoShape == [kind |-> "none"]

\* the value of `call` when no deleteById is running
NoCall == [id |-> Null]

\* ---------------------------------------------------------------- heap
\* The tree an operation works on: the two heaps and the root reference, and
\* the record of the splits the operation has made so far.
Tree(ns, es, r) == [nodes |-> ns, elems |-> es, root |-> r, splits |-> <<>>]

\* new RTreeNode(isLeaf)
RTreeNode(isLeaf) == [elements |-> <<>>, isLeaf |-> isLeaf, parent |-> Null]

\* new TreeElement(shape, child, data)
TreeElement(shape, child, data) == [shape |-> shape, child |-> child, data |-> data]

\* TreeElement.getBoundingBox
elementBox(t, e) == getBoundingBox(t.elems[e].shape)

\* addElement as it would be without the assignment to element.child.parent
addElementNoParent(t, n, e) == [t EXCEPT !.nodes[n].elements = Append(@, e)]

\* RTreeNode.addElement
addElement(t, n, e) ==
    LET t1 == [t EXCEPT !.nodes[n].elements = Append(@, e)]
        c  == t.elems[e].child
    IN  IF c # Null THEN [t1 EXCEPT !.nodes[c].parent = n] ELSE t1

\* Array.prototype.indexOf (0 stands for -1)
indexOf(seq, x) ==
    IF \E i \in 1..Len(seq) : seq[i] = x
    THEN CHOOSE i \in 1..Len(seq) : seq[i] = x /\ \A j \in 1..(i - 1) : seq[j] # x
    ELSE 0

\* Array.prototype.splice(index, 1)
spliceOne(seq, index) ==
    [i \in 1..(Len(seq) - 1) |-> IF i < index THEN seq[i] ELSE seq[i + 1]]

\* RTreeNode.removeElement
removeElement(t, n, e) ==
    LET index == indexOf(t.nodes[n].elements, e) IN
    IF index # 0
    THEN LET t1 == [t EXCEPT !.nodes[n].elements = spliceOne(@, index)]
             c  == t.elems[e].child
         IN  IF c # Null THEN [t1 EXCEPT !.nodes[c].parent = Null] ELSE t1
    ELSE t

\* RTreeNode.getMBR for a node with at least one element (null otherwise)
RECURSIVE expandOver(_, _, _, _)
expandOver(t, els, i, mbr) ==
    IF i > Len(els) THEN mbr
    ELSE expandOver(t, els, i + 1, expandToInclude(mbr, t.elems[els[i]].shape))

getMBR(t, n) ==
    LET els == t.nodes[n].elements
        firstMBR == elementBox(t, els[1])
    IN  expandOver(t, els, 2,
                   BoundingBox(firstMBR.minX, firstMBR.minY, firstMBR.maxX, firstMBR.maxY))

hasMBR(t, n) == Len(t.nodes[n].elements) # 0

\* Array.prototype.forEach(addElement) of split
RECURSIVE addAll(_, _, _, _)
addAll(t, n, els, i) ==
    IF i > Len(els) THEN t ELSE addAll(addElement(t, n, els[i]), n, els, i + 1)

\* the elements of the list `sub` as positions in the list `els`
positions(els, sub) == [i \in 1..Len(sub) |-> indexOf(els, sub[i])]

\* what a call of split did: the node's leaf flag and entries and, for each of
\* the two nodes returned, the leaf flag and the entries it holds
splitRecord(t, n, leftNode, rightNode) ==
    LET els == t.nodes[n].elements IN
    [isLeaf |-> t.nodes[n].isLeaf, elements |-> positions(els, els),
     left  |-> [isLeaf |-> t.nodes[leftNode].isLeaf,
                elements |-> positions(els, t.nodes[leftNode].elements)],
     right |-> [isLeaf |-> t.nodes[rightNode].isLeaf,
                elements |-> positions(els, t.nodes[rightNode].elements)]]

\* the value split returns, the call being recorded
splitDone(t, n, leftNode, rightNode) ==
    [tree  |-> [t EXCEPT !.splits = Append(@, splitRecord(t, n, leftNode, rightNode))],
     left  |-> leftNode, right |-> rightNode]

\* split as it would be with rightElements = this.elements.slice(mid + 1)
splitOffByOne(t, n) ==
    LET els   == t.nodes[n].elements
        mid   == Len(els) \div 2
        leftNode  == Len(t.nodes) + 1
        rightNode == Len(t.nodes) + 2
        t1 == [t EXCEPT !.nodes = @ \o << RTreeNode(t.nodes[n].isLeaf),
                                          RTreeNode(t.nodes[n].isLeaf) >>]
    IN  splitDone(addAll(addAll(t1, leftNode, SubSeq(els, 1, mid), 1), rightNode,
                         SubSeq(els, mid + 2, Len(els)), 1),
                  n, leftNode, rightNode)

\* split as it would be with new RTreeNode() in place of new RTreeNode(this.isLeaf)
splitAsLeaves(t, n) ==
    LET els   == t.nodes[n].elements
        mid   == Len(els) \div 2
        leftNode  == Len(t.nodes) + 1
        rightNode == Len(t.nodes) + 2
        t1 == [t EXCEPT !.nodes = @ \o << RTreeNode(TRUE), RTreeNode(TRUE) >>]
    IN  splitDone(addAll(addAll(t1, leftNode, SubSeq(els, 1, mid), 1), rightNode,
                         SubSeq(els, mid + 1, Len(els)), 1),
                  n, leftNode, rightNode)

\* RTreeNode.split: two new nodes; the split node itself is left as it is
split(t, n) ==
    LET els   == t.nodes[n].elements
        mid   == Len(els) \div 2
        leftElements  == SubSeq(els, 1, mid)
        rightElements == SubSeq(els, mid + 1, Len(els))
        leftNode  == Len(t.nodes) + 1
        rightNode == Len(t.nodes) + 2
        t1 == [t EXCEPT !.nodes = @ \o << RTreeNode(t.nodes[n].isLeaf),
                                          RTreeNode(t.nodes[n].isLeaf) >>]
    IN  splitDone(addAll(addAll(t1, leftNode, leftElements, 1), rightNode, rightElements, 1),
                  n, leftNode, rightNode)

\* the same with the box of the node's first element in place of node.getMBR()
addChildEntryFirstBox(t, host, child) ==
    IF hasMBR(t, child)
    THEN LET e  == Len(t.elems) + 1
             first == elementBox(t, t.nodes[child].elements[1])
             t1 == [t EXCEPT !.elems = Append(@, TreeElement(first, child, Null))]
         IN  addElement(t1, host, e)
    ELSE t

\* new TreeElement(node.getMBR(), node, null) added to `host` when the MBR is not null
addChildEntry(t, host, child) ==
    IF hasMBR(t, child)
    THEN LET e  == Len(t.elems) + 1
             t1 == [t EXCEPT !.elems = Append(@, TreeElement(getMBR(t, child), child, Null))]
         IN  addElement(t1, host, e)
    ELSE t

\* the forEach of _insert as it would be with <= in place of <
RECURSIVE chooseBestFitLast(_, _, _, _, _, _)
chooseBestFitLast(t, els, shape, i, bestFitElement, minAreaIncrease) ==
    IF i > Len(els) THEN bestFitElement
    ELSE LET currentMBR   == elementBox(t, els[i])
             currentArea  == area(currentMBR)
             newMBR       == expandToInclude(currentMBR, shape)
             areaIncrease == area(newMBR) - currentArea
         IN  IF bestFitElement = Null \/ areaIncrease <= minAreaIncrease
             THEN chooseBestFitLast(t, els, shape, i + 1, els[i], areaIncrease)
             ELSE chooseBestFitLast(t, els, shape, i + 1, bestFitElement, minAreaIncrease)

\* the forEach of _insert: the first element with the smallest area increase
RECURSIVE chooseBestFit(_, _, _, _, _, _)
chooseBestFit(t, els, shape, i, bestFitElement, minAreaIncrease) ==
    IF i > Len(els) THEN bestFitElement
    ELSE LET currentMBR   == elementBox(t, els[i])
             currentArea  == area(currentMBR)
             newMBR       == expandToInclude(currentMBR, shape)
             areaIncrease == area(newMBR) - currentArea
         IN  IF bestFitElement = Null \/ areaIncrease < minAreaIncrease
             THEN chooseBestFit(t, els, shape, i + 1, els[i], areaIncrease)
             ELSE chooseBestFit(t, els, shape, i + 1, bestFitElement, minAreaIncrease)

\* _insert as it would be if the overflowing child stayed in place after its split
replaceBySplitSkipped(s, node, bestFitElement) == s.tree

\* _insert, when the child overflows: the chosen entry is filtered out of the
\* node and an entry for each half `s` of the split child is added
replaceBySplit(s, node, bestFitElement) ==
    addChildEntry(
        addChildEntry([s.tree EXCEPT !.nodes[node].elements =
                          SelectSeq(@, LAMBDA e : e # bestFitElement)],
                      node, s.left),
        node, s.right)

\* _insert as it would be without the enlargement of the chosen entry
growEntrySkipped(t, bestFitElement, element) == t

\* _insert, after the recursive call:
\*   bestFitElement.shape.getBoundingBox().expandToInclude(element.shape)
\* getBoundingBox() of a BoundingBox is the box itself, which is grown in place;
\* of another shape it is a temporary and the call changes nothing.
growEntry(t, bestFitElement, element) ==
    [t EXCEPT !.elems[bestFitElement].shape =
        IF @.kind = "BoundingBox"
        THEN expandToInclude(@, t.elems[element].shape)
        ELSE @]

\* the internal nodes _insert is called on, from `node` down, for an element of
\* this shape
RECURSIVE descent(_, _, _)
descent(t, shape, node) ==
    IF t.nodes[node].isLeaf THEN <<>>
    ELSE LET bestFitElement ==
                 chooseBestFit(t, t.nodes[node].elements, shape, 1, Null, 0)
         IN  IF bestFitElement # Null /\ t.elems[bestFitElement].child # Null
             THEN << node >> \o descent(t, shape, t.elems[bestFitElement].child)
             ELSE << node >>

\* RTree._insert
RECURSIVE _insert(_, _, _)
_insert(t, element, node) ==
    IF t.nodes[node].isLeaf THEN addElement(t, node, element)
    ELSE
      LET bestFitElement ==
              chooseBestFit(t, t.nodes[node].elements, t.elems[element].shape, 1, Null, 0)
      IN
      IF bestFitElement # Null /\ t.elems[bestFitElement].child # Null
      THEN
        LET child == t.elems[bestFitElement].child
            t1 == _insert(t, element, child)
            t2 == growEntry(t1, bestFitElement, element)
        IN
        IF Len(t2.nodes[child].elements) > maxEntries
        THEN replaceBySplit(split(t2, child), node, bestFitElement)
        ELSE t2
      ELSE addElement(t, node, element)

\* _splitRoot as it would be with new RTreeNode(true) for the new root
newRootAsLeaf(s) ==
    LET newRoot == Len(s.tree.nodes) + 1 IN
    [addChildEntry(
        addChildEntry([s.tree EXCEPT !.nodes = Append(@, RTreeNode(TRUE))],
                      newRoot, s.left),
        newRoot, s.right) EXCEPT !.root = newRoot]

\* _splitRoot after the split `s` of the root: the new internal root with an
\* entry for each half
newRootOver(s) ==
    LET newRoot == Len(s.tree.nodes) + 1 IN
    [addChildEntry(
        addChildEntry([s.tree EXCEPT !.nodes = Append(@, RTreeNode(FALSE))],
                      newRoot, s.left),
        newRoot, s.right) EXCEPT !.root = newRoot]

\* RTree._splitRoot
_splitRoot(t) == newRootOver(split(t, t.root))

\* insert as it would be without the test of the root after _insert
splitRootSkipped(t) == t

\* the test of insert as it would be with >= in place of >
splitRootAtMax(t) ==
    IF Len(t.nodes[t.root].elements) >= maxEntries THEN _splitRoot(t) ELSE t

\* insert, after _insert: if (this.root.elements.length > this.maxEntries) _splitRoot()
splitRootIfOver(t) ==
    IF Len(t.nodes[t.root].elements) > maxEntries THEN _splitRoot(t) ELSE t

\* RTree.insert
insert(t, data, shape) ==
    splitRootIfOver(_insert([t EXCEPT !.elems = Append(@, TreeElement(shape, Null, data))],
                            Len(t.elems) + 1, t.root))

\* RTree._search: the payloads pushed to `results`, in order
RECURSIVE _search(_, _, _, _)
_search(t, searchShape, node, i) ==
    LET els == t.nodes[node].elements IN
    IF i > Len(els) THEN <<>>
    ELSE LET element == t.elems[els[i]]
             here ==
               IF intersects(element.shape, searchShape)
               THEN IF t.nodes[node].isLeaf /\ element.data # Null
                    THEN << element.data >>
                    ELSE IF element.child # Null
                         THEN _search(t, searchShape, element.child, 1)
                         ELSE <<>>
               ELSE <<>>
         IN  here \o _search(t, searchShape, node, i + 1)

\* RTree.search
search(t, searchShape) == _search(t, searchShape, t.root, 1)

\* RTree._searchElementById
RECURSIVE _searchElementById(_, _, _, _)
_searchElementById(t, id, node, i) ==
    LET els == t.nodes[node].elements IN
    IF i > Len(els) THEN Null
    ELSE LET element == t.elems[els[i]] IN
         IF t.nodes[node].isLeaf /\ element.data # Null
         THEN IF element.data = id THEN els[i]
              ELSE _searchElementById(t, id, node, i + 1)
         ELSE IF element.child # Null
              THEN LET result == _searchElementById(t, id, element.child, 1) IN
                   IF result # Null THEN result
                   ELSE _searchElementById(t, id, node, i + 1)
              ELSE _searchElementById(t, id, node, i + 1)

\* RTree.searchById
searchById(t, id) ==
    LET element == _searchElementById(t, id, t.root, 1) IN
    IF element # Null THEN t.elems[element].data ELSE Null

\* RTree._findElementById: the element found (or null) and the path as it is on return
RECURSIVE _findElementById(_, _, _, _, _)
_findElementById(t, id, node, path, i) ==
    LET els == t.nodes[node].elements IN
    IF i > Len(els) THEN [element |-> Null, path |-> path]
    ELSE LET element == t.elems[els[i]] IN
         IF t.nodes[node].isLeaf /\ element.data # Null
         THEN IF element.data = id
              THEN [element |-> els[i],
                    path |-> Append(path, [node |-> node, parentElement |-> Null])]
              ELSE _findElementById(t, id, node, path, i + 1)
         ELSE IF element.child # Null
              THEN LET result ==
                         _findElementById(t, id, element.child,
                             Append(path, [node |-> node, parentElement |-> els[i]]), 1)
                   IN  IF result.element # Null THEN result
                       ELSE _findElementById(t, id, node, path, i + 1)
              ELSE _findElementById(t, id, node, path, i + 1)

\* _condenseTree, first loop: the path walked from its last entry to its first
RECURSIVE condensePath(_, _, _, _)
condensePath(t, path, i, eliminatedNodes) ==
    IF i < 1 THEN [tree |-> t, eliminatedNodes |-> eliminatedNodes]
    ELSE
      LET node == path[i].node
          parentElement == path[i].parentElement
      IN
      IF node # t.root /\ Len(t.nodes[node].elements) < minEntries
      THEN LET t1 == IF parentElement # Null /\ t.nodes[node].parent # Null
                     THEN removeElement(t, t.nodes[node].parent, parentElement)
                     ELSE t
           IN  condensePath(t1, path, i - 1, Append(eliminatedNodes, node))
      ELSE LET t1 == IF Len(t.nodes[node].elements) > 0 /\ parentElement # Null
                     THEN [t EXCEPT !.elems[parentElement].shape = getMBR(t, node)]
                     ELSE t
           IN  condensePath(t1, path, i - 1, eliminatedNodes)

\* whether the list `now` is the list `before` with elements appended to it
isExtension(before, now) ==
    Len(now) >= Len(before) /\ \A j \in 1..Len(before) : now[j] = before[j]

\* _condenseTree, inner loop of the reinsertion: for (const element of node.elements).
\* The iteration is over one array object and reads it as it is at each step, so
\* elements that _insert appends to it meanwhile are visited too.  `array` is that
\* object's content; it stops being node.elements (`live`) when _insert assigns a
\* filtered copy to node.elements.  r is the tree and the number of reinsertions
\* made so far.
RECURSIVE reinsertElements(_, _, _, _, _)

\* the next step of the iteration, r being the state after the step's _insert
reinsertNext(r, node, array, live, i) ==
    LET now == r.tree.nodes[node].elements IN
    IF live /\ isExtension(array, now)
    THEN reinsertElements(r, node, now, TRUE, i + 1)
    ELSE reinsertElements(r, node, array, FALSE, i + 1)

reinsertElements(r, node, array, live, i) ==
    IF i > Len(array) THEN r
    ELSE LET t  == r.tree
             element == array[i]
             c  == t.elems[element].child
             t1 == IF c # Null THEN [t EXCEPT !.nodes[c].parent = Null] ELSE t
         IN  reinsertNext([tree |-> _insert(t1, element, t1.root), count |-> r.count + 1],
                          node, array, live, i)

\* _condenseTree, outer loop of the reinsertion
RECURSIVE reinsertNodes(_, _, _)
reinsertNodes(r, eliminatedNodes, k) ==
    IF k > Len(eliminatedNodes) THEN r
    ELSE reinsertNodes(
             reinsertElements(r, eliminatedNodes[k],
                              r.tree.nodes[eliminatedNodes[k]].elements, TRUE, 1),
             eliminatedNodes, k + 1)

\* RTree._condenseTree: the tree after the call and the number of reinsertions
_condenseTree(t, path) ==
    LET c == condensePath(t, path, Len(path), <<>>)
    IN  reinsertNodes([tree |-> c.tree, count |-> 0], c.eliminatedNodes, 1)

\* deleteById, after _condenseTree (c is its tree and reinsertion count):
\*   if (this.root.elements.length === 1 && !this.root.isLeaf) this.root = ...child
collapseRoot(c) ==
    LET t == c.tree IN
    [tree |-> IF Len(t.nodes[t.root].elements) = 1 /\ ~t.nodes[t.root].isLeaf
              THEN [t EXCEPT !.root = t.elems[t.nodes[t.root].elements[1]].child]
              ELSE t,
     result |-> TRUE, reinserted |-> c.count]

\* RTree.deleteById: the tree after the call, the value returned and the number
\* of reinsertions made
deleteById(t, id) ==
    LET found == _findElementById(t, id, t.root, <<>>, 1) IN
    IF found.element # Null
    THEN LET path     == found.path
             leafNode == path[Len(path)].node
         IN  collapseRoot(_condenseTree(removeElement(t, leafNode, found.element), path))
    ELSE [tree |-> t, result |-> FALSE, reinserted |-> 0]

\* updateById, after deleteById (d is what it produced): this.insert(data, newShape)
insertAfter(d, data, newShape) ==
    [tree |-> insert(d.tree, data, newShape), result |-> TRUE, reinserted |-> d.reinserted]

\* updateById as it would be without the call of deleteById
updateByIdKeepsOld(t, id, newShape) ==
    LET data == searchById(t, id) IN
    IF data # Null
    THEN insertAfter([tree |-> t, result |-> TRUE, reinserted |-> 0], data, newShape)
    ELSE [tree |-> t, result |-> FALSE, reinserted |-> 0]

\* updateById as it would be without the test of the payload searchById returned
updateByIdUnchecked(t, id, newShape) == insertAfter(deleteById(t, id), id, newShape)

\* RTree.updateById: the tree after the call, the value returned and the number
\* of reinsertions made
updateById(t, id, newShape) ==
    LET data == searchById(t, id) IN
    IF data # Null
    THEN insertAfter(deleteById(t, id), data, newShape)
    ELSE [tree |-> t, result |-> FALSE, reinserted |-> 0]

\* ---------------------------------------------------------------- introspection
\* the {minX, minY, maxX, maxY} object literal of convertRTreeToJSON
mbrJSON(b) == [minX |-> b.minX, minY |-> b.minY, maxX |-> b.maxX, maxY |-> b.maxY]

\* convertRTreeToJSON(node, level): the record returned
RECURSIVE convertRTreeToJSON(_, _, _)
convertRTreeToJSON(t, node, level) ==
    LET n == t.nodes[node]
        elementInfo(index) ==
            LET element == t.elems[n.elements[index]]
                info == [index |-> index, shapeType |-> element.shape.kind,
                         mbr |-> mbrJSON(getBoundingBox(element.shape))]
            IN  IF n.isLeaf /\ element.data # Null
                THEN [index |-> info.index, shapeType |-> info.shapeType, mbr |-> info.mbr,
                      data |-> [id |-> element.data]]
                ELSE IF element.child # Null
                     THEN [index |-> info.index, shapeType |-> info.shapeType,
                           mbr |-> info.mbr,
                           child |-> convertRTreeToJSON(t, element.child, level + 1)]
                     ELSE info
    IN  [type     |-> IF n.isLeaf THEN "Leaf" ELSE "Internal",
         level    |-> level,
         mbr      |-> IF hasMBR(t, node) THEN mbrJSON(getMBR(t, node)) ELSE Null,
         elements |-> [index \in 1..Len(n.elements) |-> elementInfo(index)]]

\* the nodes convertRTreeToJSON is called on below `node`, for its elements from
\* the i-th on, in the order of the calls
RECURSIVE convertCalls(_, _, _)
convertCalls(t, node, i) ==
    LET els == t.nodes[node].elements IN
    IF i > Len(els) THEN <<>>
    ELSE LET element == t.elems[els[i]] IN
         IF t.nodes[node].isLeaf /\ element.data # Null
         THEN convertCalls(t, node, i + 1)
         ELSE IF element.child # Null
              THEN << element.child >> \o convertCalls(t, element.child, 1)
                       \o convertCalls(t, node, i + 1)
              ELSE convertCalls(t, node, i + 1)

\* getMBR as it would be with mbr = firstMBR in place of the copy of firstMBR:
\* the shape of the first element, when it is a BoundingBox, is expanded in place
getMBRInPlace(t, n) ==
    IF hasMBR(t, n) /\ t.elems[t.nodes[n].elements[1]].shape.kind = "BoundingBox"
    THEN [t EXCEPT !.elems[t.nodes[n].elements[1]].shape = getMBR(t, n)]
    ELSE t

\* RTreeNode.getMBR as a call on the heap: the box it expands is a new
\* BoundingBox made from the first element's box, so no object of the tree changes
getMBRCall(t, n) == t

\* the heap after the getMBR() calls convertRTreeToJSON makes, one on each node
\* it is called on
RECURSIVE mbrCalls(_, _, _)
mbrCalls(t, calls, i) ==
    IF i > Len(calls) THEN t ELSE mbrCalls(getMBRCall(t, calls[i]), calls, i + 1)

\* convertRTreeToJSON(rtree.root) as a call on the heap: the heap after it
convertRTreeToJSONCall(t) == mbrCalls(t, << t.root >> \o convertCalls(t, t.root, 1), 1)

\* ---------------------------------------------------------------- object identity
\* The nodes that can be reached from the root through child and parent
\* references, in the order a traversal from the root meets them.
RECURSIVE appendNew(_, _, _)
appendNew(order, cand, j) ==
    IF j > Len(cand) THEN order
    ELSE appendNew(IF indexOf(order, cand[j]) = 0 THEN Append(order, cand[j]) ELSE order,
                   cand, j + 1)

RECURSIVE reachableNodes(_, _, _)
reachableNodes(t, order, i) ==
    IF i > Len(order) THEN order
    ELSE LET n == t.nodes[order[i]]
             kids == SelectSeq([j \in 1..Len(n.elements) |-> t.elems[n.elements[j]].child],
                               LAMBDA c : c # Null)
             cand == IF n.parent # Null THEN Append(kids, n.parent) ELSE kids
         IN  reachableNodes(t, appendNew(order, cand, 1), i + 1)

RECURSIVE reachableElems(_, _, _, _)
reachableElems(t, nodeOrder, i, order) ==
    IF i > Len(nodeOrder) THEN order
    ELSE reachableElems(t, nodeOrder, i + 1,
                        appendNew(order, t.nodes[nodeOrder[i]].elements, 1))

\* a reference after renumbering: the position of the object in the order
ref(order, x) == IF x = Null THEN Null ELSE indexOf(order, x)

\* the objects of the two orders, with their references renumbered
Renumber(t, nodeOrder, elemOrder) ==
    Tree([k \in 1..Len(nodeOrder) |->
             LET n == t.nodes[nodeOrder[k]] IN
             [elements |-> [j \in 1..Len(n.elements) |-> ref(elemOrder, n.elements[j])],
              isLeaf   |-> n.isLeaf,
              parent   |-> ref(nodeOrder, n.parent)]],
         [k \in 1..Len(elemOrder) |->
             LET e == t.elems[elemOrder[k]] IN
             [shape |-> e.shape, child |-> ref(nodeOrder, e.child), data |-> e.data]],
         1)

CollectFrom(t, nodeOrder) == Renumber(t, nodeOrder, reachableElems(t, nodeOrder, 1, <<>>))

\* The same heap with the unreachable objects dropped and the others renumbered.
Collect(t) == CollectFrom(t, reachableNodes(t, << t.root >>, 1))

\* ---------------------------------------------------------------- the state machine
tree == Tree(nodes, elems, root)

MaxEntriesChoices == {2, 3, 4}

\* the default of the constructor's parameter maxEntries
DefaultMaxEntries == 4

\* the constructor as it would be with 8 as the default of maxEntries
RTreeDefaultEight(args) ==
    LET m == IF args = <<>> THEN 8 ELSE args[1]
    IN  [maxEntries |-> m, minEntries |-> m \div 2]

\* RTree.constructor, called with the argument list args (empty, or maxEntries):
\* the fields maxEntries and minEntries of the new tree
RTree(args) ==
    LET m == IF args = <<>> THEN DefaultMaxEntries ELSE args[1]
    IN  [maxEntries |-> m, minEntries |-> m \div 2]

\* new RTree(...args) for one of the argument lists, and the driver's empty
\* objectArray
InitWith(calls, argLists) ==
    /\ \E args \in argLists :
          /\ maxEntries = RTree(args).maxEntries
          /\ minEntries = RTree(args).minEntries
    /\ nodes = << RTreeNode(TRUE) >>
    /\ elems = <<>>
    /\ root = 1
    /\ objectArray = [id \in Ids |-> NoShape]
    /\ assigned = [id \in Ids |-> NoShape]
    /\ nextId = 1
    /\ budget = calls
    /\ lastOp = [op |-> "new", id |-> Null, shape |-> NoShape, result |-> TRUE,
                 reinserted |-> 0, splits |-> <<>>]
    /\ call = NoCall

\* the tree and lastOp after a public call `op` that produced r
Store(c, op, id, shape, r) ==
    /\ nodes' = c.nodes
    /\ elems' = c.elems
    /\ root' = c.root
    /\ lastOp' = [op |-> op, id |-> id, shape |-> shape, result |-> r.result,
                  reinserted |-> r.reinserted, splits |-> r.tree.splits]

Return(op, id, shape, r) == Store(Collect(r.tree), op, id, shape, r)

\* rtree.insert(data, shape) with the next identifier, as the driver assigns them
Insert(shape) ==
    /\ nextId <= MaxId
    /\ Return("insert", nextId, shape,
              [tree |-> insert(tree, nextId, shape), result |-> TRUE, reinserted |-> 0])
    /\ objectArray' = [objectArray EXCEPT ![nextId] = shape]
    /\ assigned' = [assigned EXCEPT ![nextId] = shape]
    /\ nextId' = nextId + 1
    /\ UNCHANGED <<maxEntries, minEntries, budget, call>>

\* rtree.deleteById(id)
DeleteById(id) ==
    /\ budget > 0
    /\ Return("deleteById", id, NoShape, deleteById(tree, id))
    /\ assigned' = [assigned EXCEPT ![id] = NoShape]
    /\ budget' = budget - 1
    /\ UNCHANGED <<maxEntries, minEntries, objectArray, nextId, call>>

\* rtree.updateById(id, newShape)
UpdateById(id, newShape) ==
    /\ budget > 0
    /\ Return("updateById", id, newShape, updateById(tree, id, newShape))
    /\ assigned' = IF assigned[id] # NoShape
                   THEN [assigned EXCEPT ![id] = newShape]
                   ELSE assigned
    /\ budget' = budget - 1
    /\ UNCHANGED <<maxEntries, minEntries, objectArray, nextId, call>>

\* the tree and lastOp after a call that returns no verdict
Read(c, op, id, shape) ==
    Store(c, op, id, shape, [tree |-> c, result |-> TRUE, reinserted |-> 0])

\* rtree.search(searchShape): _search and the shapes' intersects assign nothing
Search(searchShape) ==
    /\ budget > 0
    /\ Read(Collect(tree), "search", Null, searchShape)
    /\ budget' = budget - 1
    /\ UNCHANGED <<maxEntries, minEntries, objectArray, assigned, nextId, call>>

\* rtree.searchById(id): _searchElementById assigns nothing
SearchById(id) ==
    /\ budget > 0
    /\ Read(Collect(tree), "searchById", id, NoShape)
    /\ budget' = budget - 1
    /\ UNCHANGED <<maxEntries, minEntries, objectArray, assigned, nextId, call>>

\* convertRTreeToJSON(rtree.root)
ConvertRTreeToJSON ==
    /\ budget > 0
    /\ Read(Collect(convertRTreeToJSONCall(tree)), "convertRTreeToJSON", Null, NoShape)
    /\ budget' = budget - 1
    /\ UNCHANGED <<maxEntries, minEntries, objectArray, assigned, nextId, call>>

Next ==
    \/ \E shape \in InputShapes : Insert(shape)
    \/ \E id \in Ids : DeleteById(id)
    \/ \E id \in Ids, newShape \in InputShapes : UpdateById(id, newShape)

\* rtree.insert(data, shape) with any identifier not inserted yet
InsertAny(id, shape) ==
    /\ objectArray[id] = NoShape
    /\ Return("insert", id, shape,
              [tree |-> insert(tree, id, shape), result |-> TRUE, reinserted |-> 0])
    /\ objectArray' = [objectArray EXCEPT ![id] = shape]
    /\ assigned' = [assigned EXCEPT ![id] = shape]
    /\ UNCHANGED <<maxEntries, minEntries, nextId, budget, call>>

\* the inserts of a set of payloads, in any order
NextOrder == \E id \in Ids, shape \in InputShapes : InsertAny(id, shape)

Init == InitWith(MaxMutations, {<< m >> : m \in MaxEntriesChoices})
Spec == Init /\ [][Next]_vars

\* the same machine with a longer run of deleteById/updateById calls
InitDeep == InitWith(DeepMutations, {<< m >> : m \in MaxEntriesChoices})
SpecDeep == InitDeep /\ [][Next]_vars

\* the machine of a tree constructed without arguments: new RTree()
InitDefault == InitWith(MaxMutations, {<<>>})
SpecDefault == InitDefault /\ [][Next]_vars

\* the machine whose callers also search and introspect the tree
NextRead ==
    \/ Next
    \/ \E searchShape \in Queries : Search(searchShape)
    \/ \E id \in Ids : SearchById(id)
    \/ ConvertRTreeToJSON

InitRead == InitWith(MaxMutations, {<< m >> : m \in MaxEntriesChoices})
SpecRead == InitRead /\ [][NextRead]_vars

\* the machine that only inserts, the identifiers in any order
InitOrder == InitWith(0, {<< m >> : m \in MaxEntriesChoices})
SpecOrder == InitOrder /\ [][NextOrder]_vars

\* ------------------------------------------- deleteById, one loop iteration a step
\* The reinsertion loop of _condenseTree as steps: `call` holds the tree the call
\* works on, the eliminated nodes, the number k of the node whose elements are
\* being iterated, the array object the iteration reads (and whether it is still
\* node.elements), the position i in it and the number of reinsertions made.

\* for (const node of eliminatedNodes): the iteration of node number k begins
startNode(c, k) ==
    [c EXCEPT !.k = k,
              !.array = IF k <= Len(c.eliminatedNodes)
                        THEN c.tree.nodes[c.eliminatedNodes[k]].elements
                        ELSE <<>>,
              !.live = TRUE,
              !.i = 1]

\* rtree.deleteById(id) up to the end of the first loop of _condenseTree, or to
\* its return when no entry holds the id
DeleteByIdCall(id) ==
    /\ budget > 0
    /\ call = NoCall
    /\ LET found == _findElementById(tree, id, root, <<>>, 1) IN
       IF found.element # Null
       THEN LET path == found.path
                c == condensePath(
                         removeElement(tree, path[Len(path)].node, found.element),
                         path, Len(path), <<>>)
            IN  /\ call' = startNode([id |-> id, tree |-> c.tree,
                                      eliminatedNodes |-> c.eliminatedNodes,
                                      k |-> 1, array |-> <<>>, live |-> TRUE, i |-> 1,
                                      count |-> 0], 1)
                /\ UNCHANGED <<nodes, elems, root, assigned, budget, lastOp>>
       ELSE /\ Return("deleteById", id, NoShape,
                      [tree |-> tree, result |-> FALSE, reinserted |-> 0])
            /\ assigned' = [assigned EXCEPT ![id] = NoShape]
            /\ budget' = budget - 1
            /\ call' = NoCall
    /\ UNCHANGED <<maxEntries, minEntries, objectArray, nextId>>

\* the state of the call after one execution of the loop body on `element`:
\*   if (element.child) element.child.parent = null; this._insert(element, this.root)
\* and the array the iteration goes on reading
reinsertOne(c, element) ==
    LET child == c.tree.elems[element].child
        t1    == IF child # Null THEN [c.tree EXCEPT !.nodes[child].parent = Null]
                 ELSE c.tree
        t2    == _insert(t1, element, t1.root)
        now   == t2.nodes[c.eliminatedNodes[c.k]].elements
        live  == c.live /\ isExtension(c.array, now)
    IN  [c EXCEPT !.tree = t2,
                  !.array = IF live THEN now ELSE @,
                  !.live = live,
                  !.i = @ + 1,
                  !.count = @ + 1]

\* one execution of the body of for (const element of node.elements)
Reinsert ==
    /\ call # NoCall
    /\ call.k <= Len(call.eliminatedNodes)
    /\ call.i <= Len(call.array)
    /\ call.count < MaxReinsertions
    /\ \E c \in {reinsertOne(call, call.array[call.i])} : call' = c
    /\ UNCHANGED <<nodes, elems, root, maxEntries, minEntries, objectArray, assigned, nextId,
                   budget, lastOp>>

\* the iteration of node.elements is done: the outer loop goes to the next node
NextEliminated ==
    /\ call # NoCall
    /\ call.k <= Len(call.eliminatedNodes)
    /\ call.i > Len(call.array)
    /\ call' = startNode(call, call.k + 1)
    /\ UNCHANGED <<nodes, elems, root, maxEntries, minEntries, objectArray, assigned, nextId,
                   budget, lastOp>>

\* the outer loop is done: the root test of deleteById and return true
DeleteByIdReturn ==
    /\ call # NoCall
    /\ call.k > Len(call.eliminatedNodes)
    /\ \E r \in {collapseRoot([tree |-> call.tree, count |-> call.count])} :
          \E c \in {Collect(r.tree)} : Store(c, "deleteById", call.id, NoShape, r)
    /\ assigned' = [assigned EXCEPT ![call.id] = NoShape]
    /\ budget' = budget - 1
    /\ call' = NoCall
    /\ UNCHANGED <<maxEntries, minEntries, objectArray, nextId>>

\* rtree.insert when no deleteById is running (the program has one thread)
InsertIdle(shape) == call = NoCall /\ Insert(shape)

NextSteps ==
    \/ \E shape \in InputShapes : InsertIdle(shape)
    \/ \E id \in Ids : DeleteByIdCall(id)
    \/ Reinsert
    \/ NextEliminated
    \/ DeleteByIdReturn

\* a call that has begun runs on: nothing else is scheduled before it returns
RunToCompletion == WF_vars(Reinsert \/ NextEliminated \/ DeleteByIdReturn)

InitSteps == InitWith(MaxMutations, {<< m >> : m \in MaxEntriesChoices})
SpecSteps == InitSteps /\ [][NextSteps]_vars /\ RunToCompletion

\* ---------------------------------------------------------------- observations
Range(seq) == {seq[i] : i \in 1..Len(seq)}

\* the payloads that are stored by the calls made so far
Stored == {id \in Ids : assigned[id] # NoShape}

\* the reference linear scan: the stored payloads whose latest shape intersects q
LinearScan(q) == {id \in Stored : intersects(assigned[id], q)}

\* child nodes referenced by the elements of node n
ChildrenOf(n) ==
    {elems[nodes[n].elements[i]].child : i \in 1..Len(nodes[n].elements)} \ {Null}

\* the nodes at depth k below the root (following child references)
RECURSIVE Level(_)
Level(k) == IF k = 0 THEN {root} ELSE UNION {ChildrenOf(n) : n \in Level(k - 1)}

\* the nodes reachable from the root through child references
RECURSIVE Descendants(_)
Descendants(S) ==
    LET more == S \cup UNION {ChildrenOf(n) : n \in S}
    IN  IF more = S THEN S ELSE Descendants(more)

TreeNodes == Descendants({root})

\* the positions (node, index) of the element lists of the tree
Slots == UNION {{<<n, i>> : i \in 1..Len(nodes[n].elements)} : n \in TreeNodes}
ElementAt(slot) == elems[nodes[slot[1]].elements[slot[2]]]

\* the depths at which the tree has a leaf node
LeafDepths == {k \in 0..Len(nodes) : \E n \in Level(k) : nodes[n].isLeaf}

NoDuplicates(seq) == \A i, j \in 1..Len(seq) : i # j => seq[i] # seq[j]

Mutated == lastOp.op \in {"deleteById", "updateById"} /\ lastOp.result

\* whether a leaf entry of the tree holds the payload with this id
InTree(id) == \E s \in Slots : nodes[s[1]].isLeaf /\ ElementAt(s).data = id

\* ---------------------------------------------------------------- claims

\* C1: when deleteById(id) returns true, the searchById(id) that follows returns
\* absent, and no search returns a payload whose id is deleted and not inserted again.
C1_DeletedIsGone ==
    /\ (lastOp.op = "deleteById" /\ lastOp.result) => searchById(tree, lastOp.id) = Null
    /\ \A id \in Ids \ Stored : \A q \in Queries : id \notin Range(search(tree, q))

\* C2: for every query shape, search returns exactly the payloads a linear scan of
\* the stored payloads (each with its latest shape) returns.
C2_SearchIsLinearScan ==
    \A q \in Queries : Range(search(tree, q)) = LinearScan(q)

\* C3: every stored payload is in exactly one leaf entry of the tree, and search
\* never returns the same payload twice.
C3_OneLeafEntryPerPayload ==
    LET slots == Slots IN
    /\ \A id \in Stored : Cardinality({s \in slots : ElementAt(s).data = id}) = 1
    /\ \A q \in Queries : NoDuplicates(search(tree, q))

\* C4: every payload inserted and not deleted since is returned by searchById,
\* whatever inserts, splits, deletions and updates of other ids came after.
C4_StoredIsRetrievable ==
    \A id \in Stored : searchById(tree, id) = id

\* C4 witness: a deleteById that reinserted orphans in a tree that has split, with
\* payloads still stored.
C4_Witness ==
    /\ lastOp.op = "deleteById" /\ lastOp.result /\ lastOp.reinserted > 0
    /\ ~nodes[root].isLeaf
    /\ Cardinality(Stored) >= 2
    /\ \A id \in Stored : searchById(tree, id) = id

\* C5: every non-root node of the tree holds between minEntries and maxEntries
\* entries.
C5_FanOut ==
    \A n \in TreeNodes \ {root} :
        Len(nodes[n].elements) >= minEntries /\ Len(nodes[n].elements) <= maxEntries

\* C6: the root holds at most maxEntries entries, at least one when a payload is
\* stored, and is an empty leaf when none is.
C6_RootSize ==
    /\ Len(nodes[root].elements) <= maxEntries
    /\ (Stored # {} => Len(nodes[root].elements) >= 1)
    /\ (Stored = {} => nodes[root].isLeaf /\ Len(nodes[root].elements) = 0)

\* C7: all leaf nodes of the tree are at the same depth.
C7_LeavesAtOneDepth == Cardinality(LeafDepths) <= 1

\* C7 witness: after a deleteById or updateById that found its id, a tree of height
\* two whose leaves are all at depth two.
C7_Witness == Mutated /\ LeafDepths = {2}

\* C8: the cached MBR of every internal entry is the tight cover of the entries
\* of the child it references.
C8_TightMBR ==
    \A s \in Slots :
        ElementAt(s).child # Null =>
            /\ hasMBR(tree, ElementAt(s).child)
            /\ ElementAt(s).shape = getMBR(tree, ElementAt(s).child)

\* C9: the root's parent is null; every other node of the tree is referenced by
\* exactly one entry, its parent is the node holding that entry; no node is its
\* own ancestor.
C9_ParentLinks ==
    LET slots == Slots IN
    /\ nodes[root].parent = Null
    /\ \A n \in TreeNodes \ {root} :
          LET refs == {s \in slots : ElementAt(s).child = n} IN
          /\ Cardinality(refs) = 1
          /\ \A s \in refs : nodes[n].parent = s[1]
    /\ Level(Len(nodes)) = {}

\* C9 witness: after a deleteById or updateById that found its id, a tree with
\* nodes two levels below the root, each with its parent one level below the root.
C9_Witness ==
    /\ Mutated
    /\ Level(2) # {}
    /\ \A n \in Level(2) : nodes[n].parent \in Level(1)

\* C10: after updateById(id, s) returned true, searchById(id) returns the payload
\* and search(q) returns it for every q whose bounding box contains that of s.
C10_UpdatedIsFound ==
    (lastOp.op = "updateById" /\ lastOp.result) =>
        /\ searchById(tree, lastOp.id) = lastOp.id
        /\ \A q \in Queries :
              boxContains(getBoundingBox(q), getBoundingBox(lastOp.shape))
                  => lastOp.id \in Range(search(tree, q))

\* C10 witness: an updateById that found its id in a tree that has split, and a
\* query that contains the new shape, misses another stored payload and returns
\* the updated one.
C10_Witness ==
    /\ lastOp.op = "updateById" /\ lastOp.result
    /\ ~nodes[root].isLeaf
    /\ \E q \in Queries :
          /\ boxContains(getBoundingBox(q), getBoundingBox(lastOp.shape))
          /\ LinearScan(q) # Stored
          /\ lastOp.id \in Range(search(tree, q))

\* C11: after updateById(k, s) found its id, the payload is stored with shape s
\* only: a search whose region intersects the old shape's bounding box and not
\* that of s does not return the payload k.
C11_OldShapeForgotten ==
    [][(lastOp'.op = "updateById" /\ lastOp'.result) =>
          \A q \in Queries :
              (intersects(q, assigned[lastOp'.id]) /\ ~intersects(q, lastOp'.shape))
                  => lastOp'.id \notin Range(search(tree', q))]_vars

\* C12: deleteById(id) and updateById(id, shape) with an id no leaf entry of the
\* tree holds return false and leave the tree as it was (nodes, entries, MBRs,
\* root; nothing is inserted); on a tree without leaf entries search returns an
\* empty collection and searchById returns absent.
C12_AbsentIdIsNoOp ==
    /\ [][(lastOp'.op \in {"deleteById", "updateById"} /\ ~InTree(lastOp'.id))
              => (~lastOp'.result /\ tree' = tree)]_vars
    /\ [](~(\E id \in Ids : InTree(id)) =>
              /\ \A q \in Queries : search(tree, q) = <<>>
              /\ \A id \in Ids : searchById(tree, id) = Null)

\* C12 witness: an updateById that returned false on a tree that has split and
\* holds other payloads.
C12_Witness ==
    /\ lastOp.op = "updateById" /\ ~lastOp.result
    /\ ~InTree(lastOp.id)
    /\ ~nodes[root].isLeaf
    /\ Stored # {}

\* the stored identifiers in ascending order
RECURSIVE Ascending(_)
Ascending(S) ==
    IF S = {} THEN <<>>
    ELSE LET least == CHOOSE x \in S : \A y \in S : x <= y
         IN  << least >> \o Ascending(S \ {least})

\* the tree after inserting, in this order, the payloads order[i], order[i+1], ...
\* with the shapes the reference collection holds for them
RECURSIVE insertAll(_, _, _)
insertAll(t, order, i) ==
    IF i > Len(order) THEN t
    ELSE insertAll(insert(t, order[i], assigned[order[i]]), order, i + 1)

\* the stored payloads inserted in ascending order into an empty tree with the
\* same maxEntries
AscendingTree == insertAll(Tree(<< RTreeNode(TRUE) >>, <<>>, 1), Ascending(Stored), 1)

\* C13: whatever the order in which a set of (payload, shape) pairs is inserted
\* into an empty tree, search returns the same set of payloads for every query
\* and searchById the same result for every id as after inserting the same pairs
\* in ascending order of id (so any two orders agree), tree shapes differing or not.
C13_InsertOrder ==
    \A other \in {AscendingTree} :
    /\ \A q \in Queries : Range(search(tree, q)) = Range(search(other, q))
    /\ \A id \in Ids : searchById(tree, id) = searchById(other, id)

\* C13 witness: a set of payloads inserted in an order that gives another tree
\* than the ascending order, both trees having split, and the same answers.
C13_Witness ==
    \E other \in {AscendingTree} :
    /\ ~nodes[root].isLeaf
    /\ tree # Collect(other)
    /\ \E q \in Queries : Range(search(tree, q)) \notin {{}, Stored}
    /\ \A q \in Queries : Range(search(tree, q)) = Range(search(other, q))

\* what the callers of a tree can observe of its payloads: the set search
\* returns for every query and what searchById returns for every id
Observe(t) ==
    [search |-> [q \in Queries |-> Range(search(t, q))],
     byId   |-> [id \in Ids |-> searchById(t, id)]]

\* C14: from any reachable tree, updateById(id, shape) of a payload the tree
\* holds leaves the same observable payload set as deleteById(id) followed by
\* insert(payload, shape) does from the same tree.
C14_UpdateIsDeleteInsert ==
    [][(lastOp'.op = "updateById" /\ InTree(lastOp'.id)) =>
          \A t \in {insert(deleteById(tree, lastOp'.id).tree, lastOp'.id, lastOp'.shape)} :
              Observe(tree') = Observe(t)]_vars

\* C14 witness: an updateById that found its id in a tree that has split, changed
\* the payload's shape region and reinserted entries of an under-full leaf.
C14_Witness ==
    /\ lastOp.op = "updateById" /\ lastOp.result /\ lastOp.reinserted > 0
    /\ ~nodes[root].isLeaf
    /\ \E q \in Queries : lastOp.id \in Range(search(tree, q)) /\ LinearScan(q) # Stored

\* the number of node records in a record convertRTreeToJSON returns
RECURSIVE jsonNodes(_)
RECURSIVE jsonNodesFrom(_, _)
jsonNodesFrom(json, i) ==
    IF i > Len(json.elements) THEN 0
    ELSE (IF "child" \in DOMAIN json.elements[i]
          THEN jsonNodes(json.elements[i].child) ELSE 0) + jsonNodesFrom(json, i + 1)
jsonNodes(json) == 1 + jsonNodesFrom(json, 1)

ReadOps == {"search", "searchById", "convertRTreeToJSON"}

\* C15: search, searchById and convertRTreeToJSON leave the tree as it was (root,
\* every node's list of entries, every entry's shape, child and payload, every
\* parent reference), and convertRTreeToJSON is called once on every node that
\* can be reached from the root, and on no other.
C15_ReadsLeaveTree ==
    /\ [][lastOp'.op \in ReadOps => tree' = tree]_vars
    /\ [](\A calls \in {<< root >> \o convertCalls(tree, root, 1)} :
              /\ NoDuplicates(calls)
              /\ Range(calls) = TreeNodes
              /\ jsonNodes(convertRTreeToJSON(tree, root, 0)) = Len(calls))

\* C15 witness: convertRTreeToJSON was called on a tree with nodes two levels
\* below the root.
C15_Witness ==
    /\ lastOp.op = "convertRTreeToJSON"
    /\ Level(2) # {}
    /\ Len(convertCalls(tree, root, 1)) >= 3

\* C16 as stated: a tree constructed without a maxEntries argument has
\* maxEntries = 8 and minEntries = 4, and its root is an empty leaf.
C16_DefaultIsEight ==
    lastOp.op = "new" =>
        /\ maxEntries = 8 /\ minEntries = 4
        /\ nodes[root].isLeaf /\ nodes[root].elements = <<>>

\* C16 amended: a tree constructed without a maxEntries argument has
\* maxEntries = 4 and minEntries = floor(4/2) = 2 (and keeps them), and its root
\* is an empty leaf.
C16_DefaultIsFour ==
    /\ maxEntries = 4 /\ minEntries = 2
    /\ lastOp.op = "new" => nodes[root].isLeaf /\ nodes[root].elements = <<>>

\* C16 witness: the tree new RTree() returns, before any call on it.
C16_Witness ==
    /\ lastOp.op = "new" /\ nextId = 1
    /\ maxEntries = RTree(<<>>).maxEntries
    /\ nodes = << RTreeNode(TRUE) >> /\ root = 1

\* C17: from an empty tree, the first maxEntries inserts cause no split (the
\* root is a single leaf holding all the payloads); the insert of the
\* (maxEntries + 1)-th payload causes exactly one split, after which the root is
\* internal with exactly two children, both leaves.
C17_SplitBoundary ==
    LET n == Cardinality(Stored) IN
    /\ n <= maxEntries =>
          /\ lastOp.splits = <<>>
          /\ nodes[root].isLeaf /\ TreeNodes = {root}
          /\ Len(nodes[root].elements) = n
          /\ {ElementAt(s).data : s \in Slots} = Stored
    /\ n = maxEntries + 1 =>
          /\ Len(lastOp.splits) = 1
          /\ ~nodes[root].isLeaf
          /\ Len(nodes[root].elements) = 2
          /\ Cardinality(ChildrenOf(root)) = 2
          /\ \A c \in ChildrenOf(root) : nodes[c].isLeaf

\* C17 witness: the insert of the fifth payload into a tree with maxEntries = 4
\* has split the root, a leaf, in two.
C17_Witness ==
    /\ lastOp.op = "insert" /\ Len(lastOp.splits) = 1
    /\ Cardinality(Stored) = maxEntries + 1
    /\ maxEntries = 4
    /\ Cardinality(ChildrenOf(root)) = 2

\* the enlargement of the area of entry e's box needed to include the shape
enlargement(e, shape) ==
    area(expandToInclude(elementBox(tree, e), shape)) - area(elementBox(tree, e))

\* the position in node n of the entry the descent of insert picks for the shape
chosen(n, shape) ==
    indexOf(nodes[n].elements,
            chooseBestFit(tree, nodes[n].elements, shape, 1, Null, 0))

\* C18 as stated: at each internal node of its descent insert picks the entry
\* needing the smallest area enlargement; among entries that tie on enlargement
\* the one with the smaller box area, and among those that tie on both the
\* earliest.
C18_TieByArea ==
    \A shape \in InputShapes : \A n \in Range(descent(tree, shape, root)) :
        LET els == nodes[n].elements
            k   == chosen(n, shape)
        IN  \A i \in 1..Len(els) :
              /\ enlargement(els[k], shape) <= enlargement(els[i], shape)
              /\ enlargement(els[k], shape) = enlargement(els[i], shape) =>
                    /\ area(elementBox(tree, els[k])) <= area(elementBox(tree, els[i]))
                    /\ area(elementBox(tree, els[k])) = area(elementBox(tree, els[i]))
                           => k <= i

\* C18 amended: at each internal node of its descent insert picks the entry
\* needing the smallest area enlargement; among entries that tie on enlargement
\* the one at the earliest position, whatever their areas.
C18_TieByPosition ==
    \A shape \in InputShapes : \A n \in Range(descent(tree, shape, root)) :
        LET els == nodes[n].elements
            k   == chosen(n, shape)
        IN  \A i \in 1..Len(els) :
              /\ enlargement(els[k], shape) <= enlargement(els[i], shape)
              /\ enlargement(els[k], shape) = enlargement(els[i], shape) => k <= i

\* C18 witness: an internal node on the descent for a shape where two entries
\* tie on enlargement, the later of them has the smaller area, and the earlier
\* is picked.
C18_Witness ==
    \E shape \in InputShapes : \E n \in Range(descent(tree, shape, root)) :
        LET els == nodes[n].elements
            k   == chosen(n, shape)
        IN  \E i \in 1..Len(els) :
              /\ k < i
              /\ enlargement(els[k], shape) = enlargement(els[i], shape)
              /\ area(elementBox(tree, els[i])) < area(elementBox(tree, els[k]))

\* C19: every call of split made by the last operation (on a child in _insert or
\* on the root in _splitRoot, in an insert or in the reinsertion of a delete) was
\* on a node holding exactly maxEntries + 1 entries and returned two nodes of
\* sizes ceil((maxEntries + 1)/2) and floor((maxEntries + 1)/2), the first holding
\* a prefix of the entries and the second the rest, in order, each with the leaf
\* flag of the split node.
C19_SplitHalves ==
    \A i \in 1..Len(lastOp.splits) :
        LET sp == lastOp.splits[i] IN
        /\ Len(sp.elements) = maxEntries + 1
        /\ {Len(sp.left.elements), Len(sp.right.elements)} =
               {(maxEntries + 2) \div 2, (maxEntries + 1) \div 2}
        /\ sp.left.elements \o sp.right.elements = sp.elements
        /\ sp.left.isLeaf = sp.isLeaf /\ sp.right.isLeaf = sp.isLeaf

\* the nodes of the heap t that can be reached from the nodes S through child
\* references
RECURSIVE reachableFrom(_, _)
reachableFrom(t, S) ==
    LET more == S \cup (UNION {{t.elems[t.nodes[n].elements[i]].child :
                                    i \in 1..Len(t.nodes[n].elements)} : n \in S} \ {Null})
    IN  IF more = S THEN S ELSE reachableFrom(t, more)

\* the nodes on the path deleteById(id) finds that are not the root and hold
\* fewer than minEntries entries once the entry of id is removed from its leaf
underFull(found) ==
    LET path == found.path
        removed == removeElement(tree, path[Len(path)].node, found.element)
    IN  {path[k].node : k \in {j \in 1..Len(path) :
             /\ path[j].node # root
             /\ Len(removed.nodes[path[j].node].elements) < minEntries}}

\* C20: when deleteById removes the entry of a payload and that leaves a non-root
\* node of the path with fewer than minEntries entries, the node is detached from
\* its parent: after the operation it cannot be reached from the root.
C20_UnderFullDetached ==
    \A id \in Ids :
        InTree(id) =>
            \A after \in {deleteById(tree, id).tree} :
                underFull(_findElementById(tree, id, root, <<>>, 1))
                    \cap reachableFrom(after, {after.root}) = {}

\* the nodes of the heap t at depth k below its root
RECURSIVE levelOf(_, _)
levelOf(t, k) ==
    IF k = 0 THEN {t.root}
    ELSE UNION {{t.elems[t.nodes[n].elements[i]].child :
                     i \in 1..Len(t.nodes[n].elements)} : n \in levelOf(t, k - 1)} \ {Null}

\* the height of the heap t: the depth of its deepest node (0 for a single node)
height(t) ==
    CHOOSE k \in 0..Len(t.nodes) :
        levelOf(t, k) # {} /\ \A j \in (k + 1)..Len(t.nodes) : levelOf(t, j) = {}

\* whether the root of t is an internal node that holds exactly one entry
singleEntryRoot(t) == ~t.nodes[t.root].isLeaf /\ Len(t.nodes[t.root].elements) = 1

\* whether deleteById(id) takes the only entry of a leaf under a root of two
\* entries: id is held by one entry of the tree, that entry is alone in its
\* leaf, and the leaf is a child of the internal root, which holds one more
\* entry. The leaf is left with 0 < minEntries entries and nothing to reinsert,
\* so condensing as specified (the entry that references an under-full node is
\* detached, C20) leaves the root with a single entry.
emptiesLeafOfTwoEntryRoot(id) ==
    /\ ~nodes[root].isLeaf
    /\ Len(nodes[root].elements) = 2
    /\ minEntries >= 1
    /\ \E n \in ChildrenOf(root) :
          /\ nodes[n].isLeaf
          /\ Len(nodes[n].elements) = 1
          /\ \A s \in Slots :
                (nodes[s[1]].isLeaf /\ ElementAt(s).data = id) <=> s[1] = n

C22_EntryKindByHost ==
    \A s \in Slots :
        IF nodes[s[1]].isLeaf
        THEN ElementAt(s).data # Null /\ ElementAt(s).child = Null
        ELSE ElementAt(s).child # Null /\ ElementAt(s).data = Null

\* C22 witness: a deleteById that reinserted orphans, after which the tree has an
\* internal root and leaves with entries, every entry of the kind of its host.
C22_Witness ==
    /\ lastOp.op = "deleteById" /\ lastOp.result /\ lastOp.reinserted > 0
    /\ ~nodes[root].isLeaf
    /\ \E s \in Slots : nodes[s[1]].isLeaf /\ ElementAt(s).data # Null
    /\ \A s \in Slots : nodes[s[1]].isLeaf <=> ElementAt(s).child = Null
    /\ \A s \in Slots : nodes[s[1]].isLeaf <=> ElementAt(s).data # Null

\* whether the root holds more than maxEntries entries when the _insert of
\* insert(data, shape) on the heap t has returned
rootOverflows(t, data, shape) ==
    LET t1 == _insert([t EXCEPT !.elems = Append(@, TreeElement(shape, Null, data))],
                      Len(t.elems) + 1, t.root)
    IN  Len(t1.nodes[t1.root].elements) > maxEntries

\* whether the root of the heap t is an internal node over two nodes that are
\* the two nodes of the split record sp, in their order
rootOverHalves(t, sp) ==
    /\ ~t.nodes[t.root].isLeaf
    /\ Len(t.nodes[t.root].elements) = 2
    /\ LET left  == t.elems[t.nodes[t.root].elements[1]].child
           right == t.elems[t.nodes[t.root].elements[2]].child
       IN  /\ left # Null /\ right # Null
           /\ t.nodes[left].isLeaf = sp.isLeaf /\ t.nodes[right].isLeaf = sp.isLeaf
           /\ Len(t.nodes[left].elements) = Len(sp.left.elements)
           /\ Len(t.nodes[right].elements) = Len(sp.right.elements)
           /\ Len(sp.left.elements) + Len(sp.right.elements) = Len(sp.elements)

\* C23: a public call makes the tree higher only through the insert it makes
\* (insert itself, or the insert of updateById), exactly when the root holds more
\* than maxEntries entries after _insert, and then by one level: the root is a new
\* internal node over the two halves of the split root.  deleteById never makes
\* the tree higher.
C23_HeightGrowth ==
    [][\A before \in {height(tree)}, after \in {height(tree')} :
          /\ after <= before + 1
          /\ (lastOp'.op = "deleteById" => after <= before)
          /\ (lastOp'.op = "updateById" /\ ~lastOp'.result => after = before)
          /\ (lastOp'.op = "insert" =>
                 (after = before + 1
                      <=> rootOverflows(tree, lastOp'.id, lastOp'.shape)))
          /\ (lastOp'.op = "updateById" /\ lastOp'.result =>
                 \A d \in {deleteById(tree, lastOp'.id).tree} :
                     /\ height(d) <= before
                     /\ after = height(d) + 1
                            <=> rootOverflows(d, lastOp'.id, lastOp'.shape))
          /\ (after > before =>
                 /\ lastOp'.op \in {"insert", "updateById"}
                 /\ lastOp'.splits # <<>>
                 /\ Len(lastOp'.splits[Len(lastOp'.splits)].elements) > maxEntries
                 /\ rootOverHalves(tree', lastOp'.splits[Len(lastOp'.splits)]))]_vars

\* C23 witness: an insert that split the root of a tree of height one, the tree
\* now having height two and a root over the two halves.
C23_Witness ==
    /\ lastOp.op = "insert" /\ lastOp.splits # <<>>
    /\ rootOverHalves(tree, lastOp.splits[Len(lastOp.splits)])
    /\ ~lastOp.splits[Len(lastOp.splits)].isLeaf
    /\ height(tree) = 2

\* the positions of the entries in the subtree below the child node c
slotsBelow(c) ==
    UNION {{<<n, i>> : i \in 1..Len(nodes[n].elements)} : n \in reachableFrom(tree, {c})}

\* the positions of the entries that reference a child node
ChildSlots == {s \in Slots : ElementAt(s).child # Null}

\* the positions of the entries of the leaves
LeafSlots == {s \in Slots : nodes[s[1]].isLeaf}

\* the payload and the shape of every entry of the leaves
LeafEntries == {<<ElementAt(s).data, ElementAt(s).shape>> : s \in LeafSlots}

\* C24: in every state, the cached MBR of every entry that references a child
\* contains the bounding box of every entry in the subtree below it, and
\* search(q) returns the payload of every leaf entry of the tree whose shape
\* intersects q.
C24_Coverage ==
    [](/\ \A s \in ChildSlots :
             \A b \in slotsBelow(ElementAt(s).child) :
                 boxContains(getBoundingBox(ElementAt(s).shape),
                             getBoundingBox(ElementAt(b).shape))
       /\ \A held \in {LeafEntries} :
             \A q \in Queries : \A found \in {Range(search(tree, q))} :
                 \A e \in held : intersects(e[2], q) => e[1] \in found)

\* C24 witness: after a deleteById or updateById that found its id, a tree of
\* height two and a query for which search skips a subtree (the MBR of its entry
\* does not intersect the query) and returns a payload from another one.
C24_Witness ==
    /\ Mutated
    /\ Level(2) # {}
    /\ \E q \in Queries :
          /\ \E s \in ChildSlots : ~intersects(ElementAt(s).shape, q)
          /\ \E s \in LeafSlots :
                /\ intersects(ElementAt(s).shape, q)
                /\ ElementAt(s).data \in Range(search(tree, q))

\* whether the deleteById call in progress can take its next step: the loops are
\* done (it returns), the iteration of a node is done (the next node begins), or
\* an entry is left to reinsert and fewer than MaxReinsertions have been made
canStep ==
    \/ call.k > Len(call.eliminatedNodes)
    \/ call.i > Len(call.array)
    \/ call.count < MaxReinsertions

\* the position of the call in its two loops, which every step moves forward:
\* the node number, then the index in the array being read
loopPosition(c) == << c.k, c.i >>

\* C25: a deleteById call that has entered the reinsertion loop of _condenseTree
\* leaves it and returns: although the loop reads the entry list of the
\* eliminated node as _insert appends to it, every call in progress can take its
\* next step with fewer than MaxReinsertions reinsertions made, every step moves
\* the loops forward, and the step after the last returns true with the tree and
\* the count deleteById gives.  The references the operations follow without a
\* test are there: the root is a node, and the path of a found entry ends with
\* the leaf that holds it.
C25_DeleteTerminates ==
    /\ [](call # NoCall => canStep)
    /\ [][(call # NoCall /\ call' # NoCall) =>
              \/ loopPosition(call')[1] > loopPosition(call)[1]
              \/ /\ loopPosition(call')[1] = loopPosition(call)[1]
                 /\ loopPosition(call')[2] > loopPosition(call)[2]
                 /\ call'.count = call.count + 1]_vars
    /\ [](root \in 1..Len(nodes))
    /\ [](\A id \in Ids :
             \A found \in {_findElementById(tree, id, root, <<>>, 1)} :
                 found.element # Null =>
                     /\ found.path # <<>>
                     /\ nodes[found.path[Len(found.path)].node].isLeaf
                     /\ indexOf(nodes[found.path[Len(found.path)].node].elements,
                                found.element) # 0)
    /\ [][(call # NoCall /\ call' = NoCall) =>
              \A d \in {deleteById(tree, call.id)} :
                  /\ lastOp'.result /\ d.result
                  /\ lastOp'.reinserted = d.reinserted
                  /\ tree' = Collect(d.tree)]_vars

\* C25 witness: a deleteById inside the loop over its first eliminated node,
\* which held fewer than minEntries entries when the loop began: the list being
\* read is still the node's and has grown beyond minEntries entries.
C25_Witness ==
    /\ call # NoCall
    /\ call.k = 1
    /\ call.live
    /\ call.count >= 2
    /\ Len(call.array) > minEntries

====
